---- MODULE Spec2Model ----
\* Registration and payment reconciliation of the MWS hockey fundraiser
\* server (src/api/index.js): the purchase handler, the Stripe webhook, the
\* success page, the registrations table and the payment provider as the
\* handlers see it.
EXTENDS Integers, Sequences, FiniteSets, TLC

\* ---------------------------------------------------------------------
\* Bounds of the model
\* ---------------------------------------------------------------------
MaxRegs == 2        \* rows the registrations table may hold
MaxNameLen == 2     \* longest text field a purchase request carries
MaxTicketLen == 3   \* longest num_tickets string a purchase request carries
MaxCredLen == 2     \* longest admin password configured or presented

\* ---------------------------------------------------------------------
\* Program constants
\* ---------------------------------------------------------------------
TICKET_PRICE == 5000
MIN_TICKETS == 1
MAX_TICKETS == 20
NULL == 0                 \* SQL NULL / a missing session_id
ForeignSession == -1      \* a checkout session of the same provider account
                          \* that no purchase request of this server created

IntakeProcs == {"i1", "i2"}     \* purchase requests in flight
WebhookProcs == {"w1"}          \* webhook deliveries in flight
SuccessProcs == {"s1"}          \* success-page visits in flight
\* A handler that has answered takes the next request of its kind, so any
\* number of requests arrive in a run; the sets bound those in flight at once.

\* ---------------------------------------------------------------------
\* Request values.  A string is a sequence of one-character strings; a
\* field the body does not carry is Undefined.
\* ---------------------------------------------------------------------
Undefined == <<"undefined">>

StringsUpTo(chars, n) == UNION {[1..k -> chars] : k \in 0..n}

NameChars == {" ", "J"}
TicketChars == {"0", "1", "2", "5", ".", "a", "-"}
Digits == {"0", "1", "2", "3", "4", "5", "6", "7", "8", "9"}

DigitVal(c) ==
  CASE c = "0" -> 0 [] c = "1" -> 1 [] c = "2" -> 2 [] c = "3" -> 3
    [] c = "4" -> 4 [] c = "5" -> 5 [] c = "6" -> 6 [] c = "7" -> 7
    [] c = "8" -> 8 [] c = "9" -> 9

\* JavaScript truthiness of a body field: undefined and "" are falsy, every
\* other string (a blank one included) is truthy.
Truthy(v) == v # Undefined /\ v # <<>>

RECURSIVE SkipWhite(_)
SkipWhite(s) == IF s # <<>> /\ Head(s) = " " THEN SkipWhite(Tail(s)) ELSE s

RECURSIVE DigitPrefix(_)
DigitPrefix(s) ==
  IF s # <<>> /\ Head(s) \in Digits
    THEN <<Head(s)>> \o DigitPrefix(Tail(s))
    ELSE <<>>

RECURSIVE DigitsValue(_, _)
DigitsValue(s, acc) ==
  IF s = <<>> THEN acc ELSE DigitsValue(Tail(s), 10 * acc + DigitVal(Head(s)))

\* parseInt(v, 10): leading white space is skipped, an optional sign is read,
\* then the longest prefix of decimal digits; no digit gives NaN, and whatever
\* follows the digits is ignored.
ParseInt(v) ==
  IF v = Undefined THEN [nan |-> TRUE, val |-> 0]
  ELSE
    LET t == SkipWhite(v)
        signed == t # <<>> /\ Head(t) \in {"+", "-"}
        neg == t # <<>> /\ Head(t) = "-"
        d == DigitPrefix(IF signed THEN Tail(t) ELSE t)
    IN IF d = <<>> THEN [nan |-> TRUE, val |-> 0]
       ELSE [nan |-> FALSE,
             val |-> IF neg THEN 0 - DigitsValue(d, 0) ELSE DigitsValue(d, 0)]

\* The purchase handler's two checks: "ok" or the status it answers with.
FieldsPresent(req) ==
  /\ Truthy(req.first_name)
  /\ Truthy(req.last_name)
  /\ Truthy(req.email)
  /\ Truthy(req.phone)
  /\ Truthy(req.num_tickets)

\* The range check without its upper limit.
TicketsInRangeNoUpper(t) == ~t.nan /\ t.val >= MIN_TICKETS

TicketsInRange(t) == ~t.nan /\ t.val >= MIN_TICKETS /\ t.val <= MAX_TICKETS

Accepts(req) == FieldsPresent(req) /\ TicketsInRange(ParseInt(req.num_tickets))

NoRequest ==
  [first_name |-> Undefined, last_name |-> Undefined, email |-> Undefined,
   phone |-> Undefined, num_tickets |-> Undefined, total_amount |-> Undefined]

BaseRequest ==
  [first_name |-> <<"J">>, last_name |-> <<"D">>, email |-> <<"j", "@", "e">>,
   phone |-> <<"5">>, num_tickets |-> <<"3">>, total_amount |-> Undefined]

NameInputs == StringsUpTo(NameChars, MaxNameLen) \cup {Undefined}
TicketInputs == StringsUpTo(TicketChars, MaxTicketLen) \cup {Undefined}

\* Purchase bodies: the base body with one field replaced by any value of
\* its kind, or carrying an extra total_amount field.
AllRequests ==
  {[BaseRequest EXCEPT !.first_name = v] : v \in NameInputs}
    \cup {[BaseRequest EXCEPT !.last_name = v] : v \in NameInputs}
    \cup {[BaseRequest EXCEPT !.email = v] : v \in NameInputs}
    \cup {[BaseRequest EXCEPT !.phone = v] : v \in NameInputs}
    \cup {[BaseRequest EXCEPT !.num_tickets = v] : v \in TicketInputs}
    \cup {[BaseRequest EXCEPT !.total_amount = <<"1">>]}

\* The bodies the specification of all handlers draws from: one the handler
\* accepts and one it rejects.
MainRequests == {BaseRequest, [BaseRequest EXCEPT !.num_tickets = <<"0">>]}

\* The purchase handlers that specification runs, one request at a time.
MainIntake == {"i1"}

\* ---------------------------------------------------------------------
\* State
\* ---------------------------------------------------------------------
VARIABLES
  dbConfigured,    \* TURSO_DATABASE_URL is set: db is a client, else null
  webhookSecret,   \* STRIPE_WEBHOOK_SECRET: "unset" or "whsec"
  registrations,   \* the registrations table, in insertion order
  paidCount,       \* per row: how often payment_status changed to 'paid'
  sessions,        \* the provider's checkout sessions created by this server
  intake,          \* POST /create-checkout-session handlers
  webhook,         \* POST /webhook handlers
  success,         \* GET /success handlers
  adminCreds,      \* ADMIN_USER and ADMIN_PASSWORD, "" when unset
  admin,           \* GET /admin handlers
  page             \* the last answer of GET / and GET /cancel

vars ==
  <<dbConfigured, webhookSecret, registrations, paidCount, sessions,
    intake, webhook, success, adminCreds, admin, page>>

IdleIntake ==
  [pc |-> "idle", req |-> NoRequest, tickets |-> 0, registrationId |-> NULL,
   session |-> NULL, resp |-> 0]

IdleWebhook ==
  [pc |-> "idle", signedWith |-> "none", type |-> "none", session |-> NULL,
   applied |-> FALSE, resp |-> 0]

IdleSuccess ==
  [pc |-> "idle", sessionId |-> NULL, applied |-> FALSE, resp |-> 0]

AdminProcs == {"a1"}            \* admin requests in flight

NoHeader == [scheme |-> "none", b64 |-> <<>>]

NoStats ==
  [totalRegistrations |-> 0, totalTicketsSold |-> 0, totalRevenue |-> 0]

IdleAdmin ==
  [pc |-> "idle", header |-> NoHeader, user |-> <<>>, pass |-> <<>>,
   resp |-> 0, challenge |-> FALSE, stats |-> NoStats]

IdlePage == [path |-> "none", resp |-> 0]

\* ---------------------------------------------------------------------
\* The store's statements
\* ---------------------------------------------------------------------
\* INSERT INTO registrations (..., payment_status) VALUES (..., 'pending'):
\* the id is the next AUTOINCREMENT value, stripe_session_id defaults to
\* NULL and created_at is the insertion time on the store's clock.
InsertPending(regs, req, tickets) ==
  Append(regs,
    [id |-> Len(regs) + 1,
     first_name |-> req.first_name,
     last_name |-> req.last_name,
     email |-> req.email,
     phone |-> req.phone,
     num_tickets |-> tickets,
     total_amount |-> tickets * TICKET_PRICE,
     stripe_session_id |-> NULL,
     payment_status |-> "pending",
     created_at |-> Len(regs) + 1])

\* The session-id UPDATE without its WHERE clause.
AttachSessionAll(regs, sid, id) ==
  [i \in 1..Len(regs) |-> [regs[i] EXCEPT !.stripe_session_id = sid]]

\* The session-id UPDATE aimed at the newest row (WHERE id = MAX(id)) instead
\* of the row this request inserted.
AttachSessionNewest(regs, sid, id) ==
  [i \in 1..Len(regs) |->
    IF i = Len(regs) THEN [regs[i] EXCEPT !.stripe_session_id = sid]
    ELSE regs[i]]

\* UPDATE registrations SET stripe_session_id = ? WHERE id = ?
AttachSession(regs, sid, id) ==
  [i \in 1..Len(regs) |->
    IF regs[i].id = id THEN [regs[i] EXCEPT !.stripe_session_id = sid]
    ELSE regs[i]]

\* The paid UPDATE as a read-modify-write that flips the status it reads.
MarkPaidToggle(regs, sid) ==
  [i \in 1..Len(regs) |->
    IF regs[i].stripe_session_id = sid
      THEN [regs[i] EXCEPT !.payment_status =
             IF regs[i].payment_status = "paid" THEN "pending" ELSE "paid"]
      ELSE regs[i]]

\* The paid UPDATE keyed by row reference (WHERE id = ?) instead of by session.
MarkPaidById(regs, sid) ==
  [i \in 1..Len(regs) |->
    IF regs[i].id = sid THEN [regs[i] EXCEPT !.payment_status = "paid"]
    ELSE regs[i]]

\* The paid UPDATE without its WHERE clause.
MarkPaidAll(regs, sid) ==
  [i \in 1..Len(regs) |-> [regs[i] EXCEPT !.payment_status = "paid"]]

\* The paid UPDATE writing every row: 'paid' where the session matches,
\* 'pending' elsewhere.
MarkPaidOnlyThis(regs, sid) ==
  [i \in 1..Len(regs) |->
    [regs[i] EXCEPT !.payment_status =
      IF regs[i].stripe_session_id = sid THEN "paid" ELSE "pending"]]

\* UPDATE registrations SET payment_status = 'paid' WHERE stripe_session_id = ?
MarkPaid(regs, sid) ==
  [i \in 1..Len(regs) |->
    IF regs[i].stripe_session_id = sid
      THEN [regs[i] EXCEPT !.payment_status = "paid"]
      ELSE regs[i]]

\* The rows whose payment_status a statement changed from pending to paid.
CountPaid(cnt, before, after) ==
  [i \in 1..Len(after) |->
    IF i <= Len(before)
      THEN IF before[i].payment_status # "paid" /\ after[i].payment_status = "paid"
             THEN cnt[i] + 1 ELSE cnt[i]
      ELSE 0]

\* ---------------------------------------------------------------------
\* The payment provider
\* ---------------------------------------------------------------------
\* stripe.checkout.sessions.create: a fresh session, unpaid, carrying the
\* registration id as metadata; its hosted URL is known to the handler only.
\* A session whose hosted URL reaches the buyer as soon as it is created.
NewSessionUrlSent(regId) ==
  [registration_id |-> regId, payment_status |-> "unpaid", url_sent |-> TRUE]

NewSession(regId) ==
  [registration_id |-> regId, payment_status |-> "unpaid", url_sent |-> FALSE]

\* stripe.checkout.sessions.retrieve: the live payment status, or "error"
\* for an identifier the provider does not know.
RetrieveStatus(sid) ==
  IF sid = ForeignSession THEN "paid"
  ELSE IF sid \in 1..Len(sessions) THEN sessions[sid].payment_status
  ELSE "error"

\* The sessions the provider has completed: a checkout-completed event is
\* signed and sent for these only.
CompletedSessions ==
  {sid \in 1..Len(sessions) : sessions[sid].payment_status = "paid"}
    \cup {ForeignSession}

\* The buyer pays on the hosted page the 303 redirect pointed them at.
BuyerPays(sid) ==
  /\ sid \in 1..Len(sessions)
  /\ sessions[sid].url_sent
  /\ sessions[sid].payment_status = "unpaid"
  /\ sessions' = [sessions EXCEPT ![sid].payment_status = "paid"]
  /\ UNCHANGED <<adminCreds, admin, page, dbConfigured, webhookSecret, registrations, paidCount,
                 intake, webhook, success>>

\* ---------------------------------------------------------------------
\* POST /create-checkout-session
\* ---------------------------------------------------------------------
\* The catch answering with a redirect instead of the error.
IntakeFailedRedirects(rec) == [rec EXCEPT !.pc = "done", !.resp = 303]

\* catch (err): res.status(500).send('Something went wrong. ...')
IntakeFailed(rec) == [rec EXCEPT !.pc = "done", !.resp = 500]

PendingInserts == Cardinality({q \in IntakeProcs : intake[q].pc = "insert"})

\* The request arrives: both validations, then the INSERT is issued (a null
\* db throws there, which the handler's catch answers with 500).
IntakeReceive(p, req) ==
  /\ intake[p].pc \in {"idle", "done"}
  /\ IF ~FieldsPresent(req)
       THEN intake' = [intake EXCEPT ![p] =
              [IdleIntake EXCEPT !.pc = "done", !.req = req, !.resp = 400]]
     ELSE IF ~TicketsInRange(ParseInt(req.num_tickets))
       THEN intake' = [intake EXCEPT ![p] =
              [IdleIntake EXCEPT !.pc = "done", !.req = req, !.resp = 400]]
     ELSE IF ~dbConfigured
       THEN intake' = [intake EXCEPT ![p] =
              IntakeFailed([IdleIntake EXCEPT !.req = req,
                              !.tickets = ParseInt(req.num_tickets).val])]
     ELSE /\ Len(registrations) + PendingInserts < MaxRegs
          /\ intake' = [intake EXCEPT ![p] =
               [IdleIntake EXCEPT !.pc = "insert", !.req = req,
                                  !.tickets = ParseInt(req.num_tickets).val]]
  /\ UNCHANGED <<adminCreds, admin, page, dbConfigured, webhookSecret, registrations, paidCount,
                 sessions, webhook, success>>

\* The store runs the INSERT and returns lastInsertRowid, or fails.
IntakeInsert(p) ==
  /\ intake[p].pc = "insert"
  /\ \/ /\ registrations' =
             InsertPending(registrations, intake[p].req, intake[p].tickets)
        /\ paidCount' = Append(paidCount, 0)
        /\ intake' = [intake EXCEPT ![p].pc = "create",
                        ![p].registrationId = registrations'[Len(registrations')].id]
     \/ /\ intake' = [intake EXCEPT ![p] = IntakeFailed(intake[p])]
        /\ UNCHANGED <<registrations, paidCount>>
  /\ UNCHANGED <<adminCreds, admin, page, dbConfigured, webhookSecret, sessions, webhook, success>>

\* The provider creates the checkout session, or the call fails.
IntakeCreateSession(p) ==
  /\ intake[p].pc = "create"
  /\ \/ /\ sessions' = Append(sessions, NewSession(intake[p].registrationId))
        /\ intake' = [intake EXCEPT ![p].pc = "attach",
                                    ![p].session = Len(sessions) + 1]
     \/ /\ intake' = [intake EXCEPT ![p] = IntakeFailed(intake[p])]
        /\ UNCHANGED sessions
  /\ UNCHANGED <<adminCreds, admin, page, dbConfigured, webhookSecret, registrations, paidCount,
                 webhook, success>>

\* The store runs the UPDATE of stripe_session_id, or fails.
IntakeAttach(p) ==
  /\ intake[p].pc = "attach"
  /\ \/ /\ registrations' =
             AttachSession(registrations, intake[p].session, intake[p].registrationId)
        /\ intake' = [intake EXCEPT ![p].pc = "respond"]
     \/ /\ intake' = [intake EXCEPT ![p] = IntakeFailed(intake[p])]
        /\ UNCHANGED registrations
  /\ UNCHANGED <<adminCreds, admin, page, dbConfigured, webhookSecret, paidCount, sessions, webhook, success>>

\* res.redirect(303, session.url): the buyer now holds the hosted URL.
IntakeRespond(p) ==
  /\ intake[p].pc = "respond"
  /\ intake' = [intake EXCEPT ![p].pc = "done", ![p].resp = 303]
  /\ sessions' = [sessions EXCEPT ![intake[p].session].url_sent = TRUE]
  /\ UNCHANGED <<adminCreds, admin, page, dbConfigured, webhookSecret, registrations, paidCount,
                 webhook, success>>

\* ---------------------------------------------------------------------
\* POST /webhook
\* ---------------------------------------------------------------------
EventTypes == {"checkout.session.completed", "payment_intent.succeeded"}

\* The session identifiers a payload may name.
SessionRefs == (1..Len(sessions)) \cup {ForeignSession}

\* A verification that accepts any signature header that is present.
SignatureVerifiesAnySigned(signedWith, secret) == signedWith # "none"

\* stripe.webhooks.constructEvent(body, sig, secret): the signature verifies
\* when it was made over this body with the configured secret.
SignatureVerifies(signedWith, secret) == signedWith = secret

\* The handler without its event-type test.
HandlesEventAny(type) == TRUE

\* if (event.type === 'checkout.session.completed')
HandlesEvent(type) == type = "checkout.session.completed"

\* A delivery arrives.  signedWith is the key its signature was made with:
\* "whsec" (the provider), "attacker" (a forgery) or "none" (no header).  The
\* provider signs a checkout-completed event for completed sessions only.
WebhookReceive(w, signedWith, type, sid) ==
  /\ webhook[w].pc \in {"idle", "done", "failed"}
  /\ (signedWith = "whsec" /\ type = "checkout.session.completed")
       => sid \in CompletedSessions
  /\ LET req == [IdleWebhook EXCEPT !.signedWith = signedWith, !.type = type,
                                    !.session = sid]
     IN IF webhookSecret = "unset"
          THEN webhook' = [webhook EXCEPT ![w] =
                 [req EXCEPT !.pc = "done", !.resp = 400]]
        ELSE IF ~SignatureVerifies(signedWith, webhookSecret)
          THEN webhook' = [webhook EXCEPT ![w] =
                 [req EXCEPT !.pc = "done", !.resp = 400]]
        ELSE IF HandlesEvent(type)
          THEN IF dbConfigured
                 THEN webhook' = [webhook EXCEPT ![w] = [req EXCEPT !.pc = "update"]]
                 \* db is null: db.execute throws and nothing catches it
                 ELSE webhook' = [webhook EXCEPT ![w] = [req EXCEPT !.pc = "failed"]]
        ELSE webhook' = [webhook EXCEPT ![w] =
               [req EXCEPT !.pc = "done", !.resp = 200]]
  /\ UNCHANGED <<adminCreds, admin, page, dbConfigured, webhookSecret, registrations, paidCount,
                 sessions, intake, success>>

\* The store runs the paid UPDATE and the handler answers {received: true};
\* or the statement fails, the handler's promise rejects and line 130 is
\* never reached.
WebhookUpdate(w) ==
  /\ webhook[w].pc = "update"
  /\ \/ /\ registrations' = MarkPaid(registrations, webhook[w].session)
        /\ paidCount' = CountPaid(paidCount, registrations, registrations')
        /\ webhook' = [webhook EXCEPT ![w].pc = "done", ![w].applied = TRUE,
                                      ![w].resp = 200]
     \/ /\ webhook' = [webhook EXCEPT ![w].pc = "failed"]
        /\ UNCHANGED <<registrations, paidCount>>
  /\ UNCHANGED <<adminCreds, admin, page, dbConfigured, webhookSecret, sessions, intake, success>>

\* ---------------------------------------------------------------------
\* GET /success
\* ---------------------------------------------------------------------
\* The session_id values a visit may carry: none, a session of this server,
\* a foreign one, or one the provider does not know.
VisitRefs == (0..(Len(sessions) + 1)) \cup {ForeignSession}

\* An answer of 500 in place of the page.
RenderedError(rec) == [rec EXCEPT !.pc = "done", !.resp = 500]

\* res.send(wrapInWpShell('Payment Successful ...', SUCCESS_CONTENT))
RenderedSuccess(rec) == [rec EXCEPT !.pc = "done", !.resp = 200]

\* The test taking every answered retrieve for a paid session.
ReportsPaidAlways(status) == status # "error"

\* if (session.payment_status === 'paid')
ReportsPaid(status) == status = "paid"

\* The visit arrives: without session_id the page is rendered at once.
SuccessReceive(s, sid) ==
  /\ success[s].pc \in {"idle", "done"}
  /\ IF sid = NULL
       THEN success' = [success EXCEPT ![s] = RenderedSuccess(IdleSuccess)]
       ELSE success' = [success EXCEPT ![s] =
              [IdleSuccess EXCEPT !.pc = "retrieve", !.sessionId = sid]]
  /\ UNCHANGED <<adminCreds, admin, page, dbConfigured, webhookSecret, registrations, paidCount,
                 sessions, intake, webhook>>

\* The provider answers the retrieve (or the call throws).  On 'paid' the
\* UPDATE is issued; a null db throws into the catch and the page is rendered.
SuccessRetrieve(s) ==
  /\ success[s].pc = "retrieve"
  /\ \E status \in {RetrieveStatus(success[s].sessionId), "error"} :
       IF ReportsPaid(status) /\ dbConfigured
         THEN success' = [success EXCEPT ![s].pc = "update"]
         ELSE success' = [success EXCEPT ![s] = RenderedSuccess(success[s])]
  /\ UNCHANGED <<adminCreds, admin, page, dbConfigured, webhookSecret, registrations, paidCount,
                 sessions, intake, webhook>>

\* The store runs the paid UPDATE, or fails into the catch; the page is
\* rendered either way.
SuccessUpdate(s) ==
  /\ success[s].pc = "update"
  /\ \/ /\ registrations' = MarkPaid(registrations, success[s].sessionId)
        /\ paidCount' = CountPaid(paidCount, registrations, registrations')
        /\ success' = [success EXCEPT ![s] =
                          RenderedSuccess([success[s] EXCEPT !.applied = TRUE])]
     \/ /\ success' = [success EXCEPT ![s] = RenderedSuccess(success[s])]
        /\ UNCHANGED <<registrations, paidCount>>
  /\ UNCHANGED <<adminCreds, admin, page, dbConfigured, webhookSecret, sessions, intake, webhook>>

\* ---------------------------------------------------------------------
\* GET /admin
\* ---------------------------------------------------------------------
\* Credential texts are sequences of code points: "a", ":" and "e" with an
\* acute accent (U+00E9, outside ASCII).
CredChars == {97, 58, 233}
Colon == 58
DefaultAdmin == <<97, 100, 109, 105, 110>>      \* 'admin'
UndefinedText == <<0 - 1>>                      \* a destructured element that is absent

\* The bytes a client sends for a text (UTF-8).
RECURSIVE Utf8(_)
Utf8(s) ==
  IF s = <<>> THEN <<>>
  ELSE (IF Head(s) < 128 THEN <<Head(s)>>
        ELSE <<192 + (Head(s) \div 64), 128 + (Head(s) % 64)>>) \o Utf8(Tail(s))

\* Base64 text as a sequence of 6-bit digits; Pad is the '=' sign.
Pad == 64

RECURSIVE B64Encode(_)
B64Encode(b) ==
  IF b = <<>> THEN <<>>
  ELSE IF Len(b) = 1
    THEN <<b[1] \div 4, (b[1] % 4) * 16, Pad, Pad>>
  ELSE IF Len(b) = 2
    THEN <<b[1] \div 4, (b[1] % 4) * 16 + (b[2] \div 16), (b[2] % 16) * 4, Pad>>
  ELSE <<b[1] \div 4, (b[1] % 4) * 16 + (b[2] \div 16),
         (b[2] % 16) * 4 + (b[3] \div 64), b[3] % 64>>
         \o B64Encode(SubSeq(b, 4, Len(b)))

\* Buffer.from(text, 'base64'): four digits give three bytes, fewer before
\* padding.
RECURSIVE B64Decode(_)
B64Decode(d) ==
  IF Len(d) < 4 THEN <<>>
  ELSE (IF d[3] = Pad
          THEN <<d[1] * 4 + (d[2] \div 16)>>
        ELSE IF d[4] = Pad
          THEN <<d[1] * 4 + (d[2] \div 16), (d[2] % 16) * 16 + (d[3] \div 4)>>
        ELSE <<d[1] * 4 + (d[2] \div 16), (d[2] % 16) * 16 + (d[3] \div 4),
               (d[3] % 4) * 64 + d[4]>>)
         \o B64Decode(SubSeq(d, 5, Len(d)))

\* buf.toString('ascii'): the highest bit of every byte is dropped.
AsciiText(b) == [k \in 1..Len(b) |-> b[k] % 128]

\* text.split(':'): the pieces between the colons.
RECURSIVE UpToColon(_)
UpToColon(s) ==
  IF s = <<>> \/ Head(s) = Colon THEN <<>>
  ELSE <<Head(s)>> \o UpToColon(Tail(s))

RECURSIVE SplitColon(_)
SplitColon(s) ==
  LET first == UpToColon(s)
  IN IF Len(first) = Len(s) THEN <<first>>
     ELSE <<first>> \o SplitColon(SubSeq(s, Len(first) + 2, Len(s)))

\* const [user, pass] = credentials.split(':')
UserAndPass(credentials) ==
  LET parts == SplitColon(credentials)
  IN [user |-> parts[1],
      pass |-> IF Len(parts) >= 2 THEN parts[2] ELSE UndefinedText]

\* process.env.ADMIN_USER || 'admin'
Configured(v) == IF v = <<>> THEN DefaultAdmin ELSE v

\* The header a client builds for a user name and a password.
BasicHeader(u, p) ==
  [scheme |-> "Basic", b64 |-> B64Encode(Utf8(u \o <<Colon>> \o p))]

BearerHeader == [scheme |-> "Bearer", b64 |-> <<>>]

\* The handler's comparison of the decoded header with the configuration.
CredentialsMatch(header) ==
  LET c == UserAndPass(AsciiText(B64Decode(header.b64)))
  IN c.user = Configured(adminCreds.user) /\ c.pass = Configured(adminCreds.pass)

\* A filter that keeps every row.
PaidRegistrationsAll(rows) == rows

\* registrations.filter(r => r.payment_status === 'paid')
PaidRegistrations(rows) == SelectSeq(rows, LAMBDA r : r.payment_status = "paid")

\* rows.reduce((sum, r) => sum + Number(r.num_tickets), 0)
RECURSIVE SumTickets(_, _)
SumTickets(rows, sum) ==
  IF rows = <<>> THEN sum
  ELSE SumTickets(Tail(rows), sum + Head(rows).num_tickets)

\* rows.reduce((sum, r) => sum + Number(r.total_amount), 0)
RECURSIVE SumAmounts(_, _)
SumAmounts(rows, sum) ==
  IF rows = <<>> THEN sum
  ELSE SumAmounts(Tail(rows), sum + Head(rows).total_amount)

\* SELECT * FROM registrations ORDER BY created_at DESC
SelectAll(regs) == [k \in 1..Len(regs) |-> regs[Len(regs) + 1 - k]]

\* The summary figures of the listing.
Stats(rows) ==
  [totalRegistrations |-> Len(rows),
   totalTicketsSold |-> SumTickets(PaidRegistrations(rows), 0),
   totalRevenue |-> SumAmounts(PaidRegistrations(rows), 0)]

\* The request arrives with its Authorization header; u and p are what the
\* client of a Basic header presented.  A missing or non-Basic header and
\* credentials that do not match are answered 401 with the challenge; with
\* a null db the SELECT throws and nothing catches it.
AdminReceive(a, header, u, p) ==
  /\ admin[a].pc \in {"idle", "done", "failed"}
  /\ LET rec == [IdleAdmin EXCEPT !.header = header, !.user = u, !.pass = p]
     IN IF header.scheme # "Basic"
          THEN admin' = [admin EXCEPT ![a] =
                 [rec EXCEPT !.pc = "done", !.resp = 401, !.challenge = TRUE]]
        ELSE IF ~CredentialsMatch(header)
          THEN admin' = [admin EXCEPT ![a] =
                 [rec EXCEPT !.pc = "done", !.resp = 401, !.challenge = TRUE]]
        ELSE IF dbConfigured
          THEN admin' = [admin EXCEPT ![a] = [rec EXCEPT !.pc = "select"]]
          ELSE admin' = [admin EXCEPT ![a] = [rec EXCEPT !.pc = "failed"]]
  /\ UNCHANGED <<adminCreds, page, dbConfigured, webhookSecret, registrations,
                 paidCount, sessions, intake, webhook, success>>

\* The store runs the SELECT and the listing is sent; or the statement
\* fails and the handler's promise rejects.
AdminSelect(a) ==
  /\ admin[a].pc = "select"
  /\ \/ admin' = [admin EXCEPT ![a].pc = "done", ![a].resp = 200,
                                ![a].stats = Stats(SelectAll(registrations))]
     \/ admin' = [admin EXCEPT ![a].pc = "failed"]
  /\ UNCHANGED <<adminCreds, page, dbConfigured, webhookSecret, registrations,
                 paidCount, sessions, intake, webhook, success>>

\* ---------------------------------------------------------------------
\* GET / and GET /cancel
\* ---------------------------------------------------------------------
\* res.send(wrapInWpShell(...)): the page, with no store or provider call.
RenderPage(path) ==
  /\ page' = [path |-> path, resp |-> 200]
  /\ UNCHANGED <<adminCreds, admin, dbConfigured, webhookSecret, registrations,
                 paidCount, sessions, intake, webhook, success>>

\* ---------------------------------------------------------------------
\* Specifications
\* ---------------------------------------------------------------------
\* After start-up: the table exists and is empty when a store is configured.
Init ==
  /\ dbConfigured \in BOOLEAN
  /\ webhookSecret \in {"unset", "whsec"}
  /\ registrations = <<>>
  /\ paidCount = <<>>
  /\ sessions = <<>>
  /\ intake = [p \in IntakeProcs |-> IdleIntake]
  /\ webhook = [w \in WebhookProcs |-> IdleWebhook]
  /\ success = [s \in SuccessProcs |-> IdleSuccess]
  /\ adminCreds = [user |-> <<>>, pass |-> <<>>]
  /\ admin = [a \in AdminProcs |-> IdleAdmin]
  /\ page = IdlePage

Next ==
  \/ \E p \in MainIntake, req \in MainRequests : IntakeReceive(p, req)
  \/ \E p \in MainIntake : IntakeInsert(p)
  \/ \E p \in MainIntake : IntakeCreateSession(p)
  \/ \E p \in MainIntake : IntakeAttach(p)
  \/ \E p \in MainIntake : IntakeRespond(p)
  \/ \E sid \in 1..MaxRegs : BuyerPays(sid)
  \/ \E w \in WebhookProcs, k \in {"none", "attacker", "whsec"},
        t \in EventTypes, sid \in SessionRefs : WebhookReceive(w, k, t, sid)
  \/ \E w \in WebhookProcs : WebhookUpdate(w)
  \/ \E s \in SuccessProcs, sid \in VisitRefs : SuccessReceive(s, sid)
  \/ \E s \in SuccessProcs : SuccessRetrieve(s)
  \/ \E s \in SuccessProcs : SuccessUpdate(s)

Spec == Init /\ [][Next]_vars

\* One purchase request alone, over every purchase body, on a store that
\* already holds all but one of the rows it may hold: earlier purchases of
\* the base body whose buyers were redirected and have not paid yet.
RECURSIVE SeededRows(_)
SeededRows(n) ==
  IF n = 0 THEN <<>>
  ELSE AttachSession(InsertPending(SeededRows(n - 1), BaseRequest, 3), n, n)

InitIntake ==
  /\ dbConfigured = TRUE
  /\ webhookSecret = "whsec"
  /\ registrations = SeededRows(MaxRegs - 1)
  /\ paidCount = [i \in 1..(MaxRegs - 1) |-> 0]
  /\ sessions = [i \in 1..(MaxRegs - 1) |->
                   [NewSession(i) EXCEPT !.url_sent = TRUE]]
  /\ intake = [p \in IntakeProcs |-> IdleIntake]
  /\ webhook = [w \in WebhookProcs |-> IdleWebhook]
  /\ success = [s \in SuccessProcs |-> IdleSuccess]
  /\ adminCreds = [user |-> <<>>, pass |-> <<>>]
  /\ admin = [a \in AdminProcs |-> IdleAdmin]
  /\ page = IdlePage

NextIntake ==
  \/ \E req \in AllRequests : intake["i1"].pc = "idle" /\ IntakeReceive("i1", req)
  \/ IntakeInsert("i1")
  \/ IntakeCreateSession("i1")
  \/ IntakeAttach("i1")
  \/ IntakeRespond("i1")

SpecIntake == InitIntake /\ [][NextIntake]_vars

\* Purchase requests running concurrently, and their buyers paying.
NextPurchases ==
  \/ \E p \in IntakeProcs, req \in MainRequests : IntakeReceive(p, req)
  \/ \E p \in IntakeProcs : IntakeInsert(p)
  \/ \E p \in IntakeProcs : IntakeCreateSession(p)
  \/ \E p \in IntakeProcs : IntakeAttach(p)
  \/ \E p \in IntakeProcs : IntakeRespond(p)
  \/ \E sid \in 1..MaxRegs : BuyerPays(sid)

SpecPurchases == Init /\ [][NextPurchases]_vars

\* --- concurrent purchases together with the two confirmation paths ------
InitConcurrent ==
  /\ dbConfigured = TRUE
  /\ webhookSecret = "whsec"
  /\ registrations = <<>>
  /\ paidCount = <<>>
  /\ sessions = <<>>
  /\ intake = [p \in IntakeProcs |-> IdleIntake]
  /\ webhook = [w \in WebhookProcs |-> IdleWebhook]
  /\ success = [s \in SuccessProcs |-> IdleSuccess]
  /\ adminCreds = [user |-> <<>>, pass |-> <<>>]
  /\ admin = [a \in AdminProcs |-> IdleAdmin]
  /\ page = IdlePage

NextConcurrent ==
  \/ \E p \in IntakeProcs : IntakeReceive(p, BaseRequest)
  \/ \E p \in IntakeProcs : IntakeInsert(p)
  \/ \E p \in IntakeProcs : IntakeCreateSession(p)
  \/ \E p \in IntakeProcs : IntakeAttach(p)
  \/ \E p \in IntakeProcs : IntakeRespond(p)
  \/ \E sid \in 1..MaxRegs : BuyerPays(sid)
  \/ \E w \in WebhookProcs, sid \in SessionRefs :
        WebhookReceive(w, "whsec", "checkout.session.completed", sid)
  \/ \E w \in WebhookProcs : WebhookUpdate(w)
  \/ \E s \in SuccessProcs, sid \in 1..MaxRegs : SuccessReceive(s, sid)
  \/ \E s \in SuccessProcs : SuccessRetrieve(s)
  \/ \E s \in SuccessProcs : SuccessUpdate(s)

SpecConcurrent == InitConcurrent /\ [][NextConcurrent]_vars

\* --- the admin listing over every store content -------------------------
\* The ticket counts of the listed rows: the least, a middle one, the most.
ListingTickets == {MIN_TICKETS, 3, MAX_TICKETS}

\* How far a purchase got: its row only inserted, its session attached, or
\* its payment recorded.
RowKinds == {"inserted", "attached", "paid"}

\* The row a purchase of t tickets leaves as the next row of a store.
RowAfter(regs, t, kind) ==
  LET id == Len(regs) + 1
      inserted == InsertPending(regs, BaseRequest, t)
  IN IF kind = "inserted" THEN inserted
     ELSE IF kind = "attached" THEN AttachSession(inserted, id, id)
     ELSE MarkPaid(AttachSession(inserted, id, id), id)

RECURSIVE StoresOfLen(_)
StoresOfLen(n) ==
  IF n = 0 THEN {<<>>}
  ELSE {RowAfter(regs, t, kind) :
          regs \in StoresOfLen(n - 1), t \in ListingTickets, kind \in RowKinds}

Stores == UNION {StoresOfLen(n) : n \in 0..MaxRegs}

\* The requests an admin client sends: no header, another scheme, or a
\* Basic header built from a user name and a password.
AdminRequests(users, passes) ==
  {<<NoHeader, <<>>, <<>>>>, <<BearerHeader, <<>>, <<>>>>}
    \cup {<<BasicHeader(u, p), u, p>> : u \in users, p \in passes}

InitListing ==
  /\ dbConfigured = TRUE
  /\ webhookSecret = "whsec"
  /\ registrations \in Stores
  /\ paidCount = [i \in 1..Len(registrations) |->
                    IF registrations[i].payment_status = "paid" THEN 1 ELSE 0]
  /\ sessions = [i \in 1..Len(registrations) |->
                   [registration_id |-> i,
                    payment_status |-> IF registrations[i].payment_status = "paid"
                                         THEN "paid" ELSE "unpaid",
                    url_sent |-> registrations[i].stripe_session_id # NULL]]
  /\ intake = [p \in IntakeProcs |-> IdleIntake]
  /\ webhook = [w \in WebhookProcs |-> IdleWebhook]
  /\ success = [s \in SuccessProcs |-> IdleSuccess]
  /\ adminCreds = [user |-> <<>>, pass |-> <<>>]
  /\ admin = [a \in AdminProcs |-> IdleAdmin]
  /\ page = IdlePage

NextListing ==
  \/ \E a \in AdminProcs, r \in AdminRequests({DefaultAdmin}, {DefaultAdmin}) :
        AdminReceive(a, r[1], r[2], r[3])
  \/ \E a \in AdminProcs : AdminSelect(a)

SpecListing == InitListing /\ [][NextListing]_vars

\* --- the admin credentials check over configurations and requests -------
\* ADMIN_USER: unset, or "a".
AdminUsers == {<<>>, <<97>>}

\* ADMIN_PASSWORD: unset, or any text over CredChars.
AdminPasswords == StringsUpTo(CredChars, MaxCredLen)

PresentedUsers == {<<97>>, DefaultAdmin}
PresentedPasswords == StringsUpTo(CredChars, MaxCredLen) \cup {DefaultAdmin}

InitAdmin ==
  /\ dbConfigured = TRUE
  /\ webhookSecret = "whsec"
  /\ registrations = SeededRows(MaxRegs - 1)
  /\ paidCount = [i \in 1..(MaxRegs - 1) |-> 0]
  /\ sessions = [i \in 1..(MaxRegs - 1) |->
                   [NewSession(i) EXCEPT !.url_sent = TRUE]]
  /\ intake = [p \in IntakeProcs |-> IdleIntake]
  /\ webhook = [w \in WebhookProcs |-> IdleWebhook]
  /\ success = [s \in SuccessProcs |-> IdleSuccess]
  /\ adminCreds \in [user : AdminUsers, pass : AdminPasswords]
  /\ admin = [a \in AdminProcs |-> IdleAdmin]
  /\ page = IdlePage

NextAdmin ==
  \/ \E a \in AdminProcs, r \in AdminRequests(PresentedUsers, PresentedPasswords) :
        AdminReceive(a, r[1], r[2], r[3])
  \/ \E a \in AdminProcs : AdminSelect(a)

SpecAdmin == InitAdmin /\ [][NextAdmin]_vars

\* --- every kind of request against one store ----------------------------
NextAllRequests ==
  \/ \E path \in {"/", "/cancel"} : RenderPage(path)
  \/ \E p \in MainIntake : IntakeReceive(p, BaseRequest)
  \/ \E p \in MainIntake : IntakeInsert(p)
  \/ \E p \in MainIntake : IntakeCreateSession(p)
  \/ \E p \in MainIntake : IntakeAttach(p)
  \/ \E p \in MainIntake : IntakeRespond(p)
  \/ \E sid \in 1..MaxRegs : BuyerPays(sid)
  \/ \E w \in WebhookProcs, sid \in SessionRefs :
        WebhookReceive(w, "whsec", "checkout.session.completed", sid)
  \/ \E w \in WebhookProcs : WebhookUpdate(w)
  \/ \E s \in SuccessProcs, sid \in 1..Len(sessions) : SuccessReceive(s, sid)
  \/ \E s \in SuccessProcs : SuccessRetrieve(s)
  \/ \E s \in SuccessProcs : SuccessUpdate(s)
  \/ \E a \in AdminProcs :
        AdminReceive(a, BasicHeader(DefaultAdmin, DefaultAdmin), DefaultAdmin, DefaultAdmin)
  \/ \E a \in AdminProcs : AdminSelect(a)

SpecAllRequests == InitConcurrent /\ [][NextAllRequests]_vars

\* --- everything that might mark a registration paid ---------------------
NextConfirmations ==
  \/ \E p \in MainIntake : IntakeReceive(p, BaseRequest)
  \/ \E p \in MainIntake : IntakeInsert(p)
  \/ \E p \in MainIntake : IntakeCreateSession(p)
  \/ \E p \in MainIntake : IntakeAttach(p)
  \/ \E p \in MainIntake : IntakeRespond(p)
  \/ \E sid \in 1..MaxRegs : BuyerPays(sid)
  \/ \E w \in WebhookProcs, k \in {"attacker", "whsec"}, sid \in SessionRefs :
        WebhookReceive(w, k, "checkout.session.completed", sid)
  \/ \E w \in WebhookProcs : WebhookUpdate(w)
  \/ \E s \in SuccessProcs, sid \in VisitRefs \ {NULL} : SuccessReceive(s, sid)
  \/ \E s \in SuccessProcs : SuccessRetrieve(s)
  \/ \E s \in SuccessProcs : SuccessUpdate(s)
  \/ \E a \in AdminProcs :
        AdminReceive(a, BasicHeader(DefaultAdmin, DefaultAdmin), DefaultAdmin, DefaultAdmin)
  \/ \E a \in AdminProcs : AdminSelect(a)

SpecConfirmations == InitConcurrent /\ [][NextConfirmations]_vars

\* --- the server started without a store connection ----------------------
InitNoStore ==
  /\ dbConfigured = FALSE
  /\ webhookSecret \in {"unset", "whsec"}
  /\ registrations = <<>>
  /\ paidCount = <<>>
  /\ sessions = <<>>
  /\ intake = [p \in IntakeProcs |-> IdleIntake]
  /\ webhook = [w \in WebhookProcs |-> IdleWebhook]
  /\ success = [s \in SuccessProcs |-> IdleSuccess]
  /\ adminCreds = [user |-> <<>>, pass |-> <<>>]
  /\ admin = [a \in AdminProcs |-> IdleAdmin]
  /\ page = IdlePage

NextNoStore ==
  \/ \E path \in {"/", "/cancel"} : RenderPage(path)
  \/ \E p \in MainIntake, req \in MainRequests : IntakeReceive(p, req)
  \/ \E w \in WebhookProcs, k \in {"none", "attacker", "whsec"},
        t \in EventTypes, sid \in SessionRefs : WebhookReceive(w, k, t, sid)
  \/ \E s \in SuccessProcs, sid \in VisitRefs : SuccessReceive(s, sid)
  \/ \E s \in SuccessProcs : SuccessRetrieve(s)
  \/ \E a \in AdminProcs, r \in AdminRequests({DefaultAdmin}, {DefaultAdmin}) :
        AdminReceive(a, r[1], r[2], r[3])

SpecNoStore == InitNoStore /\ [][NextNoStore]_vars

\* ---------------------------------------------------------------------
\* Properties
\* ---------------------------------------------------------------------
\* The positions of the rows holding session identifier sid.
RowsWith(regs, sid) == {i \in 1..Len(regs) : regs[i].stripe_session_id = sid}

\* The position of the row a purchase request created for session sid.
RowOf(sid) == {i \in 1..Len(registrations) :
                 registrations[i].id = sessions[sid].registration_id}

\* C1: payment_status only ever moves from pending to paid: in every step a
\* row that is paid stays paid, no row disappears, every row that appears is
\* pending, and no row ever holds another status.
C1_PaidIsMonotonic ==
  [][/\ Len(registrations') >= Len(registrations)
     /\ \A i \in 1..Len(registrations) :
          registrations[i].payment_status = "paid"
            => registrations'[i].payment_status = "paid"
     /\ \A i \in (Len(registrations) + 1)..Len(registrations') :
          registrations'[i].payment_status = "pending"
     /\ \A i \in 1..Len(registrations') :
          registrations'[i].payment_status \in {"pending", "paid"}]_vars

\* A paid row next to a row a later paid UPDATE for another session left
\* pending.
C1_Witness ==
  \E i, j \in 1..Len(registrations) :
    /\ registrations[i].payment_status = "paid"
    /\ registrations[j].payment_status = "pending"
    /\ registrations[j].stripe_session_id # NULL
    /\ \E w \in WebhookProcs :
         /\ webhook[w].applied
         /\ webhook[w].session \notin {registrations[i].stripe_session_id,
                                       registrations[j].stripe_session_id}

\* C2: when the webhook handler and the success handler have both applied
\* the paid update for the same session S, every row holding S is paid and
\* changed to paid exactly once; and the update of whichever handler comes
\* second (the other one having finished for S) leaves the table as it was,
\* so the result is that of running one handler only.
C2_PathsConverge ==
  [][\A w \in WebhookProcs, s \in SuccessProcs :
       /\ (/\ webhook'[w].pc = "done" /\ webhook'[w].applied
           /\ success'[s].pc = "done" /\ success'[s].applied
           /\ success'[s].sessionId = webhook'[w].session
           /\ webhook'[w].session \in 1..Len(sessions'))
            => /\ RowsWith(registrations', webhook'[w].session) # {}
               /\ \A i \in RowsWith(registrations', webhook'[w].session) :
                    /\ registrations'[i].payment_status = "paid"
                    /\ paidCount'[i] = 1
       /\ (/\ webhook[w].pc = "done" /\ webhook[w].applied
           /\ webhook[w].session \in 1..Len(sessions)
           /\ success[s].pc = "update" /\ success'[s].pc = "done"
           /\ success[s].sessionId = webhook[w].session)
            => registrations' = registrations
       /\ (/\ success[s].pc = "done" /\ success[s].applied
           /\ success[s].sessionId \in 1..Len(sessions)
           /\ webhook[w].pc = "update" /\ webhook'[w].pc # "update"
           /\ webhook[w].session = success[s].sessionId)
            => registrations' = registrations]_vars

\* Both handlers have applied the update for the session of a row, which is
\* paid, while another row with a session of its own is still pending.
C2_Witness ==
  \E w \in WebhookProcs, s \in SuccessProcs, i, j \in 1..Len(registrations) :
    /\ webhook[w].pc = "done" /\ webhook[w].applied
    /\ success[s].pc = "done" /\ success[s].applied
    /\ success[s].sessionId = webhook[w].session
    /\ registrations[i].stripe_session_id = webhook[w].session
    /\ registrations[i].payment_status = "paid"
    /\ registrations[j].stripe_session_id # NULL
    /\ registrations[j].payment_status = "pending"

\* C3: a paid update that the store runs for a session whose rows are all
\* paid already (a redelivery, a repeated visit, one path after the other)
\* leaves the table, the transition counts and the provider as they were,
\* and the handler answers 200.
C3_PaidUpdateIdempotent ==
  [][/\ \A w \in WebhookProcs :
          (/\ webhook[w].pc = "update" /\ webhook'[w].applied
           /\ RowsWith(registrations, webhook[w].session) # {}
           /\ \A i \in RowsWith(registrations, webhook[w].session) :
                registrations[i].payment_status = "paid")
            => /\ registrations' = registrations
               /\ paidCount' = paidCount
               /\ sessions' = sessions
               /\ webhook'[w].pc = "done" /\ webhook'[w].resp = 200
     /\ \A s \in SuccessProcs :
          (/\ success[s].pc = "update" /\ success'[s].applied
           /\ RowsWith(registrations, success[s].sessionId) # {}
           /\ \A i \in RowsWith(registrations, success[s].sessionId) :
                registrations[i].payment_status = "paid")
            => /\ registrations' = registrations
               /\ paidCount' = paidCount
               /\ sessions' = sessions
               /\ success'[s].pc = "done" /\ success'[s].resp = 200]_vars

\* The webhook has applied the update for a session, and a success visit
\* for the same session, whose row is paid, is about to apply it again.
C3_Witness ==
  \E w \in WebhookProcs, s \in SuccessProcs, i \in 1..Len(registrations) :
    /\ webhook[w].pc = "done" /\ webhook[w].applied
    /\ success[s].pc = "update"
    /\ success[s].sessionId = webhook[w].session
    /\ registrations[i].stripe_session_id = webhook[w].session
    /\ registrations[i].payment_status = "paid"
    /\ paidCount[i] = 1

\* C4: once the webhook handler has answered a verified checkout-completed
\* event for a session S that a purchase request created, the registration
\* that request inserted is paid, and it is still paid after every step.
C4_WebhookAlonePays ==
  [][\A w \in WebhookProcs :
       (/\ webhook'[w].pc = "done" /\ webhook'[w].applied
        /\ webhook'[w].resp = 200
        /\ webhook'[w].session \in 1..Len(sessions'))
         => /\ \E i \in 1..Len(registrations') :
                 registrations'[i].id = sessions'[webhook'[w].session].registration_id
            /\ \A i \in 1..Len(registrations') :
                 registrations'[i].id = sessions'[webhook'[w].session].registration_id
                   => /\ registrations'[i].payment_status = "paid"
                      /\ registrations'[i].stripe_session_id = webhook'[w].session]_vars

\* The webhook has answered the completion event of a row's session and the
\* row is paid although no success visit has ever arrived.
C4_Witness ==
  \E w \in WebhookProcs :
    /\ webhook[w].pc = "done" /\ webhook[w].applied /\ webhook[w].resp = 200
    /\ webhook[w].session \in 1..Len(sessions)
    /\ \A s \in SuccessProcs : success[s].pc = "idle"
    /\ \E i \in RowOf(webhook[w].session) :
         registrations[i].payment_status = "paid"

\* C5: every row has num_tickets in 1..20 and total_amount equal to
\* num_tickets times 5000, whatever the purchase body carried (a
\* total_amount field of its own included).
C5_AmountIsTicketsTimesPrice ==
  \A i \in 1..Len(registrations) :
    /\ registrations[i].num_tickets \in 1..20
    /\ registrations[i].total_amount = registrations[i].num_tickets * 5000

\* A row inserted for a body that carried its own total_amount.
C5_Witness ==
  \E p \in IntakeProcs, i \in 1..Len(registrations) :
    /\ intake[p].req.total_amount # Undefined
    /\ intake[p].registrationId = registrations[i].id
    /\ registrations[i].total_amount = 15000

\* A text without its leading and trailing white space.
RECURSIVE TrimRight(_)
TrimRight(s) ==
  IF s # <<>> /\ s[Len(s)] = " " THEN TrimRight(SubSeq(s, 1, Len(s) - 1)) ELSE s

Trim(s) == TrimRight(SkipWhite(s))

\* A field that is missing, empty, or empty after trimming.
Blank(v) == v = Undefined \/ Trim(v) = <<>>

BlankField(req) ==
  \/ Blank(req.first_name)
  \/ Blank(req.last_name)
  \/ Blank(req.email)
  \/ Blank(req.phone)
  \/ Blank(req.num_tickets)

\* The purchase request of handler p has neither inserted a row nor created
\* a provider session, and the answer it got, if any, is 400.
RejectedWithoutEffect(p) ==
  /\ intake[p].pc \in {"insert", "done"}
  /\ intake[p].pc = "done" => intake[p].resp = 400
  /\ registrations = SeededRows(MaxRegs - 1)
  /\ Len(sessions) = MaxRegs - 1

\* C6: a purchase request with a field that is missing, empty, or empty
\* after trimming is rejected with 400; no row is inserted and no provider
\* session is created.
C6_BlankFieldsRejected ==
  \A p \in IntakeProcs :
    (intake[p].pc # "idle" /\ BlankField(intake[p].req))
      => RejectedWithoutEffect(p)

\* A text that reads as a decimal integer: an optional sign, then digits only.
IsIntegerText(v) ==
  /\ v # Undefined
  /\ LET u == IF v # <<>> /\ Head(v) \in {"+", "-"} THEN Tail(v) ELSE v
     IN u # <<>> /\ \A k \in 1..Len(u) : u[k] \in Digits

\* C7: a purchase request whose num_tickets is not the text of an integer
\* in 1..20 is rejected with 400 and the store is unchanged.
C7_NonIntegerTicketsRejected ==
  \A p \in IntakeProcs :
    (/\ intake[p].pc # "idle"
     /\ ~(/\ IsIntegerText(intake[p].req.num_tickets)
          /\ ParseInt(intake[p].req.num_tickets).val \in 1..20))
      => RejectedWithoutEffect(p)

\* The delivery handler w holds did not verify: no secret is configured, or
\* its signature was not made with the configured secret.
Unverified(rec) ==
  webhookSecret = "unset" \/ rec.signedWith # webhookSecret

\* C8: every step of a webhook request that does not verify answers it with
\* 400 and leaves the table as it was, whatever type and session its payload
\* names.
C8_UnverifiedWebhookRejected ==
  [][\A w \in WebhookProcs :
       (webhook'[w] # webhook[w] /\ Unverified(webhook'[w]))
         => /\ webhook'[w].pc = "done"
            /\ webhook'[w].resp = 400
            /\ ~webhook'[w].applied
            /\ registrations' = registrations
            /\ paidCount' = paidCount]_vars

\* A forged checkout-completed event naming the session of a pending row
\* has been answered 400 under a configured secret, and the row is pending.
C8_Witness ==
  \E w \in WebhookProcs, i \in 1..Len(registrations) :
    /\ webhookSecret = "whsec"
    /\ webhook[w].pc = "done" /\ webhook[w].resp = 400
    /\ webhook[w].signedWith = "attacker"
    /\ webhook[w].type = "checkout.session.completed"
    /\ webhook[w].session = registrations[i].stripe_session_id
    /\ registrations[i].payment_status = "pending"

\* C9: the paid update of a verified checkout-completed event whose session
\* no row holds leaves every row as it was, and the handler answers 200.
C9_UnmatchedSessionIsNoOp ==
  [][\A w \in WebhookProcs :
       (/\ webhook[w].pc = "update" /\ webhook'[w].applied
        /\ RowsWith(registrations, webhook[w].session) = {})
         => /\ registrations' = registrations
            /\ paidCount' = paidCount
            /\ webhook'[w].pc = "done"
            /\ webhook'[w].resp = 200]_vars

\* The handler has answered 200 to a completed event of a session no row
\* holds, while the table holds a pending row.
C9_Witness ==
  \E w \in WebhookProcs, i \in 1..Len(registrations) :
    /\ webhook[w].pc = "done" /\ webhook[w].applied /\ webhook[w].resp = 200
    /\ RowsWith(registrations, webhook[w].session) = {}
    /\ registrations[i].payment_status = "pending"
    /\ registrations[i].stripe_session_id # NULL

\* C10: a verified event of another kind than checkout-session-completed is
\* answered 200 in the step that receives it, with no statement issued: the
\* table is as it was.
C10_OtherEventsAcknowledged ==
  [][\A w \in WebhookProcs :
       (/\ webhook'[w] # webhook[w]
        /\ ~Unverified(webhook'[w])
        /\ webhook'[w].type # "checkout.session.completed")
         => /\ webhook'[w].pc = "done"
            /\ webhook'[w].resp = 200
            /\ ~webhook'[w].applied
            /\ registrations' = registrations
            /\ paidCount' = paidCount]_vars

\* A verified event of another kind naming the session of a pending row has
\* been answered 200, and the row is pending.
C10_Witness ==
  \E w \in WebhookProcs, i \in 1..Len(registrations) :
    /\ webhook[w].pc = "done" /\ webhook[w].resp = 200
    /\ webhook[w].signedWith = "whsec"
    /\ webhook[w].type = "payment_intent.succeeded"
    /\ webhook[w].session = registrations[i].stripe_session_id
    /\ registrations[i].payment_status = "pending"

\* C11: no webhook handler ends without an answer, the only answers are
\* 400 and 200, and a delivery that verified is answered 200.
C11_WebhookAlwaysAnswered ==
  \A w \in WebhookProcs :
    /\ webhook[w].pc # "failed"
    /\ webhook[w].pc = "done" => webhook[w].resp \in {200, 400}
    /\ (webhook[w].pc = "done" /\ ~Unverified(webhook[w]))
         => webhook[w].resp = 200

C13_VisitWritesOnlyWhenPaid ==
  [][\A s \in SuccessProcs :
       /\ (success'[s] # success[s] /\ registrations' # registrations)
            => /\ success[s].sessionId # NULL
               /\ RetrieveStatus(success[s].sessionId) = "paid"
       /\ (success'[s] # success[s] /\ success'[s].sessionId = NULL)
            => /\ success'[s].pc = "done"
               /\ success'[s].resp = 200
               /\ registrations' = registrations
       /\ (/\ success[s].pc = "retrieve" /\ success'[s] # success[s]
           /\ RetrieveStatus(success[s].sessionId) # "paid")
            => /\ success'[s].pc = "done"
               /\ success'[s].resp = 200
               /\ registrations' = registrations]_vars

\* A visit for the unpaid session of a pending row has been rendered and
\* the row is still pending.
C13_Witness ==
  \E s \in SuccessProcs, i \in 1..Len(registrations) :
    /\ success[s].pc = "done" /\ success[s].resp = 200
    /\ ~success[s].applied
    /\ success[s].sessionId = registrations[i].stripe_session_id
    /\ RetrieveStatus(success[s].sessionId) = "unpaid"
    /\ registrations[i].payment_status = "pending"

\* C14: a retrieve that does not lead to the paid update (the call threw)
\* ends the visit with the page rendered, and the step changes nothing but
\* the visit's own handler: the table, the provider and the other handlers
\* are as before, so every later confirmation is still possible.
C14_RetrieveFailureSwallowed ==
  [][\A s \in SuccessProcs :
       (success[s].pc = "retrieve" /\ success'[s].pc # "retrieve"
        /\ success'[s].pc # "update")
         => /\ success'[s].pc = "done"
            /\ success'[s].resp = 200
            /\ ~success'[s].applied
            /\ UNCHANGED <<registrations, paidCount, sessions, intake, webhook>>]_vars

\* A visit whose retrieve threw although the provider holds the session as
\* paid has been rendered, the row is pending, and a webhook delivery for
\* the session is about to mark it paid.
C14_Witness ==
  \E s \in SuccessProcs, w \in WebhookProcs, i \in 1..Len(registrations) :
    /\ success[s].pc = "done" /\ success[s].resp = 200
    /\ ~success[s].applied
    /\ success[s].sessionId = registrations[i].stripe_session_id
    /\ RetrieveStatus(success[s].sessionId) = "paid"
    /\ registrations[i].payment_status = "pending"
    /\ webhook[w].pc = "update"
    /\ webhook[w].session = success[s].sessionId

\* C15: a purchase request that fails after its row was inserted (session
\* creation or the session-id update failed) is answered 500; the failing
\* step leaves the table as it was, and as long as the answer stands the row
\* is in the table, pending, without a session identifier, and the hosted
\* URL of the session, if one was created, never reached the buyer.
C15_FailureLeavesPendingRow ==
  [][\A p \in IntakeProcs :
       /\ (intake[p].pc \in {"create", "attach"} /\ intake'[p].pc = "done")
            => /\ intake'[p].resp = 500
               /\ registrations' = registrations
       /\ (/\ intake'[p].pc = "done"
           /\ intake'[p].registrationId # NULL
           /\ intake'[p].resp # 303)
            => /\ intake'[p].resp = 500
               /\ \E i \in 1..Len(registrations') :
                    /\ registrations'[i].id = intake'[p].registrationId
                    /\ registrations'[i].payment_status = "pending"
                    /\ registrations'[i].stripe_session_id = NULL
               /\ intake'[p].session # NULL
                    => ~sessions'[intake'[p].session].url_sent]_vars

\* A request whose session-id update failed was answered 500; its row is
\* pending without a session while the provider holds the session created
\* for it.
C15_Witness ==
  \E p \in IntakeProcs, i \in 1..Len(registrations) :
    /\ intake[p].pc = "done" /\ intake[p].resp = 500
    /\ intake[p].session # NULL
    /\ registrations[i].id = intake[p].registrationId
    /\ sessions[intake[p].session].registration_id = registrations[i].id
    /\ registrations[i].stripe_session_id = NULL
    /\ registrations[i].payment_status = "pending"

\* C16: every row appears pending and without a session identifier; a
\* session identifier is written into a row only by the attach step of the
\* purchase request that inserted the row, with the session the provider
\* created for that request; and a session identifier once written never
\* changes.
C16_SessionWrittenOnce ==
  [][/\ \A i \in (Len(registrations) + 1)..Len(registrations') :
          /\ registrations'[i].payment_status = "pending"
          /\ registrations'[i].stripe_session_id = NULL
     /\ \A i \in 1..Len(registrations) :
          /\ registrations[i].stripe_session_id # NULL
               => registrations'[i].stripe_session_id =
                    registrations[i].stripe_session_id
          /\ registrations'[i].stripe_session_id # registrations[i].stripe_session_id
               => \E p \in IntakeProcs :
                    /\ intake[p].pc = "attach" /\ intake'[p].pc = "respond"
                    /\ intake[p].registrationId = registrations[i].id
                    /\ intake[p].session = registrations'[i].stripe_session_id
                    /\ intake[p].session \in 1..Len(sessions)
                    /\ sessions[intake[p].session].registration_id =
                         registrations[i].id]_vars

\* Two purchase requests in flight at once have each attached the session
\* the provider created for them to their own row.
C16_Witness ==
  \E p, q \in IntakeProcs, i, j \in 1..Len(registrations) :
    /\ p # q /\ i # j
    /\ intake[p].pc = "respond" /\ intake[q].pc = "respond"
    /\ intake[p].registrationId = registrations[i].id
    /\ intake[q].registrationId = registrations[j].id
    /\ registrations[i].stripe_session_id = intake[p].session
    /\ registrations[j].stripe_session_id = intake[q].session
    /\ intake[p].session # intake[q].session

\* The sum of f over the index set S.
RECURSIVE SumOver(_, _)
SumOver(S, f) ==
  IF S = {} THEN 0
  ELSE LET i == CHOOSE j \in S : TRUE
       IN f[i] + SumOver(S \ {i}, f)

PaidRows == {i \in 1..Len(registrations) : registrations[i].payment_status = "paid"}

\* C17: for every store content, the listing's ticket count is the sum of
\* num_tickets over the paid registrations and its revenue the sum of
\* total_amount over those same registrations (a pending registration
\* adds nothing to either), and the total-registrations figure counts
\* every registration.
C17_StatsCountPaidOnly ==
  \A a \in AdminProcs :
    (admin[a].pc = "done" /\ admin[a].resp = 200) =>
      /\ admin[a].stats.totalTicketsSold =
           SumOver(PaidRows, [i \in PaidRows |-> registrations[i].num_tickets])
      /\ admin[a].stats.totalRevenue =
           SumOver(PaidRows, [i \in PaidRows |-> registrations[i].total_amount])
      /\ admin[a].stats.totalRegistrations = Len(registrations)

\* A listing was sent for a store holding a paid and a pending row.
C17_Witness ==
  \E a \in AdminProcs, i, j \in 1..Len(registrations) :
    /\ admin[a].pc = "done" /\ admin[a].resp = 200
    /\ registrations[i].payment_status = "paid"
    /\ registrations[j].payment_status = "pending"
    /\ admin[a].stats.totalTicketsSold = registrations[i].num_tickets
    /\ admin[a].stats.totalRegistrations = 2

\* The credentials a request presented are exactly the configured ones.
PresentsConfigured(rec) ==
  /\ rec.header.scheme = "Basic"
  /\ rec.user = Configured(adminCreds.user)
  /\ rec.pass = Configured(adminCreds.pass)

\* C18: an admin request with no Authorization header, a non-Basic header,
\* or Basic credentials whose user name or password differs from the
\* configured ones is answered 401 with the Basic challenge and reads
\* nothing from the store; the listing goes only to requests presenting
\* exactly the configured user name and password.
C18_OnlyConfiguredCredentialsListed ==
  \A a \in AdminProcs :
    (admin[a].pc # "idle" /\ ~PresentsConfigured(admin[a])) =>
      /\ admin[a].pc = "done"
      /\ admin[a].resp = 401
      /\ admin[a].challenge
      /\ admin[a].stats = NoStats

\* C19: for every configured admin user name and password, a request
\* carrying Basic base64(user:pass) with exactly those values is answered
\* 200 with the listing, whatever the password text, a colon included.
C19_ConfiguredCredentialsAccepted ==
  \A a \in AdminProcs :
    (admin[a].pc = "done" /\ PresentsConfigured(admin[a])) =>
      /\ admin[a].resp = 200
      /\ admin[a].stats = Stats(SelectAll(registrations))

\* C20: with no store connection configured the home, success and cancel
\* pages are still rendered, a purchase request ends with an error response
\* and creates no provider session, and no handler is left without a
\* response.
C20_NoStoreDegradesToPages ==
  /\ page.path # "none" => page.resp = 200
  /\ \A s \in SuccessProcs : success[s].pc = "done" => success[s].resp = 200
  /\ \A p \in IntakeProcs :
       intake[p].pc # "idle" =>
         /\ intake[p].pc = "done"
         /\ intake[p].resp \in {400, 500}
  /\ sessions = <<>>
  /\ registrations = <<>>
  /\ \A w \in WebhookProcs : webhook[w].pc # "failed"
  /\ \A a \in AdminProcs : admin[a].pc # "failed"

\* Every stored session identifier is held by one row only and is the
\* session the provider issued for that row.
SessionsBelongToTheirRows(regs, sess) ==
  \A i \in 1..Len(regs) :
    regs[i].stripe_session_id # NULL =>
      /\ \A j \in 1..Len(regs) :
           regs[j].stripe_session_id = regs[i].stripe_session_id => j = i
      /\ regs[i].stripe_session_id \in 1..Len(sess)
      /\ sess[regs[i].stripe_session_id].registration_id = regs[i].id

\* The rows whose payment_status a step changes.
StatusChanged == {i \in 1..Len(registrations) :
                   registrations'[i].payment_status # registrations[i].payment_status}

\* The session a paid UPDATE running in this step names.
UpdatingSessions ==
  {webhook[w].session : w \in {v \in WebhookProcs : webhook[v].pc = "update"}}
    \cup {success[s].sessionId : s \in {v \in SuccessProcs : success[v].pc = "update"}}

\* C21: no two registrations hold the same non-null session identifier and
\* each stored identifier is the one the provider issued for that very
\* registration, with purchase requests running concurrently; so one paid
\* transition for a session changes no row or the one row that session was
\* issued for, never a row created by another request.
C21_SessionsUniquePerRegistration ==
  /\ SessionsBelongToTheirRows(registrations, sessions)
  /\ [][/\ SessionsBelongToTheirRows(registrations', sessions')
        /\ Cardinality(StatusChanged) <= 1
        /\ \A i \in StatusChanged :
             /\ registrations[i].stripe_session_id \in UpdatingSessions
             /\ sessions[registrations[i].stripe_session_id].registration_id =
                  registrations[i].id]_vars

\* Two registrations created by concurrent requests both hold a session,
\* one of them paid by a transition that left the other pending.
C21_Witness ==
  \E p, q \in IntakeProcs, i, j \in 1..Len(registrations) :
    /\ p # q /\ i # j
    /\ intake[p].registrationId = registrations[i].id
    /\ intake[q].registrationId = registrations[j].id
    /\ intake[p].pc = "done" /\ intake[q].pc = "done"
    /\ intake[p].session < intake[q].session
    /\ registrations[i].id > registrations[j].id
    /\ registrations[i].stripe_session_id = intake[p].session
    /\ registrations[j].stripe_session_id = intake[q].session
    /\ registrations[i].payment_status = "paid"
    /\ registrations[j].payment_status = "pending"

\* The columns written at creation only.
CreatedColumns(r) ==
  <<r.id, r.first_name, r.last_name, r.email, r.phone, r.num_tickets,
    r.total_amount, r.created_at>>

\* C22: once a registration is created no request changes its id, names,
\* email, phone, num_tickets, total_amount or created_at; it undergoes only
\* one write of its session identifier and one change of payment_status to
\* paid; no registration is ever removed, and GET /admin, GET /cancel and
\* GET / change nothing in the store.
C22_RegistrationFrame ==
  [][/\ Len(registrations') >= Len(registrations)
     /\ \A i \in 1..Len(registrations) :
          /\ CreatedColumns(registrations'[i]) = CreatedColumns(registrations[i])
          /\ registrations'[i].stripe_session_id # registrations[i].stripe_session_id
               => /\ registrations[i].stripe_session_id = NULL
                  /\ registrations'[i].stripe_session_id # NULL
          /\ registrations'[i].payment_status # registrations[i].payment_status
               => /\ registrations[i].payment_status = "pending"
                  /\ registrations'[i].payment_status = "paid"
     /\ (admin' # admin \/ page' # page) => registrations' = registrations]_vars

\* A registration got its session and was paid, a later paid UPDATE for the
\* same session ran, and the listing and a page were served meanwhile.
C22_Witness ==
  \E i \in 1..Len(registrations), a \in AdminProcs, s \in SuccessProcs, w \in WebhookProcs :
    /\ registrations[i].payment_status = "paid"
    /\ registrations[i].stripe_session_id # NULL
    /\ webhook[w].applied /\ webhook[w].session = registrations[i].stripe_session_id
    /\ success[s].applied /\ success[s].sessionId = registrations[i].stripe_session_id
    /\ admin[a].pc = "done" /\ admin[a].resp = 200
    /\ admin[a].stats.totalTicketsSold = registrations[i].num_tickets
    /\ page.path = "/cancel"

\* The purchase requests taking the step from pc value a to pc value b.
Stepping(a, b) == {p \in IntakeProcs : intake[p].pc = a /\ intake'[p].pc = b}

\* The row with identifier id holds session sid.
RowHolds(id, sid) ==
  \E i \in 1..Len(registrations) :
    registrations[i].id = id /\ registrations[i].stripe_session_id = sid

\* Where a purchase request stands and what it has done so far agree.
StepsInOrder(p) ==
  LET rec == intake[p]
  IN /\ rec.pc = "insert" => (rec.registrationId = NULL /\ rec.session = NULL)
     /\ rec.pc = "create" => (RowHolds(rec.registrationId, NULL) /\ rec.session = NULL)
     /\ rec.pc = "attach" =>
          /\ RowHolds(rec.registrationId, NULL)
          /\ rec.session \in 1..Len(sessions)
          /\ sessions[rec.session].registration_id = rec.registrationId
          /\ ~sessions[rec.session].url_sent
     /\ rec.pc = "respond" =>
          /\ RowHolds(rec.registrationId, rec.session)
          /\ ~sessions[rec.session].url_sent
     /\ (rec.pc = "done" /\ rec.resp = 303) =>
          /\ RowHolds(rec.registrationId, rec.session)
          /\ sessions[rec.session].url_sent
     /\ (rec.pc = "done" /\ rec.resp # 303 /\ rec.session # NULL) =>
          ~sessions[rec.session].url_sent

\* C23: within one purchase request the steps run strictly in the order
\* insert pending registration, create provider session, attach session
\* identifier, respond 303, each at most once and each only after the
\* previous one succeeded; the buyer is redirected only after the session
\* identifier is stored against the registration, so a buyer who got the
\* redirect always has a registration with that session attached.
C23_StepsInOrder ==
  /\ \A p \in IntakeProcs : StepsInOrder(p)
  /\ [][/\ \A p \in IntakeProcs : StepsInOrder(p)'
        /\ \A sid \in 1..Len(sessions') :
             sessions'[sid].url_sent =>
               \E i \in 1..Len(registrations') :
                 /\ registrations'[i].stripe_session_id = sid
                 /\ registrations'[i].id = sessions'[sid].registration_id
        /\ Len(registrations') # Len(registrations)
             => /\ Len(registrations') = Len(registrations) + 1
                /\ Cardinality(Stepping("insert", "create")) = 1
        /\ Len(sessions') # Len(sessions)
             => /\ Len(sessions') = Len(sessions) + 1
                /\ Cardinality(Stepping("create", "attach")) = 1
        /\ (\E i \in 1..Len(registrations) :
               registrations'[i].stripe_session_id # registrations[i].stripe_session_id)
             => Cardinality(Stepping("attach", "respond")) = 1
        /\ \A p \in IntakeProcs :
             (intake'[p] # intake[p] /\ intake'[p].resp = 303)
               => p \in Stepping("respond", "done")
        /\ \A p \in IntakeProcs :
             intake'[p].pc # intake[p].pc =>
               \/ intake[p].pc \in {"idle", "done"} /\ intake'[p].pc \in {"insert", "done"}
               \/ p \in Stepping("insert", "create") \cup Stepping("create", "attach")
                        \cup Stepping("attach", "respond") \cup Stepping("respond", "done")
               \/ /\ intake[p].pc \in {"insert", "create", "attach"}
                  /\ intake'[p].pc = "done" /\ intake'[p].resp = 500]_vars

\* One request has redirected its buyer with the session stored against
\* its row, while another one failed after its session was created and
\* sent no redirect.
C23_Witness ==
  \E p, q \in IntakeProcs :
    /\ p # q
    /\ intake[p].pc = "done" /\ intake[p].resp = 303
    /\ RowHolds(intake[p].registrationId, intake[p].session)
    /\ sessions[intake[p].session].url_sent
    /\ intake[q].pc = "done" /\ intake[q].resp = 500
    /\ intake[q].session # NULL
    /\ RowHolds(intake[q].registrationId, NULL)

\* The provider, holding sessions sess, has confirmed payment of session sid.
ConfirmedAmong(sess, sid) ==
  sid \in 1..Len(sess) /\ sess[sid].payment_status = "paid"

ProviderConfirmed(sid) == ConfirmedAmong(sessions, sid)

\* This step is the paid UPDATE of a signature-verified checkout-completed
\* event for session sid.
VerifiedEventHandled(sid) ==
  \E w \in WebhookProcs :
    /\ webhook[w].pc = "update" /\ webhook'[w].applied
    /\ webhook[w].signedWith = webhookSecret
    /\ webhook[w].type = "checkout.session.completed"
    /\ webhook[w].session = sid

\* This step is the paid UPDATE of a success visit whose retrieval of
\* session sid returned paid.
PaidRetrievalHandled(sid) ==
  \E s \in SuccessProcs :
    /\ success[s].pc = "update" /\ success'[s].applied
    /\ success[s].sessionId = sid

\* C24: a registration is paid only if the provider confirmed its session:
\* every paid registration holds a session identifier for which a
\* signature-verified checkout-completed event was handled or a session
\* retrieval returned paid; no purchase request, unverified webhook,
\* success visit with an unpaid or unknown session, or admin request makes
\* a registration paid.
C24_PaidOnlyWhenConfirmed ==
  /\ \A i \in 1..Len(registrations) : registrations[i].payment_status = "pending"
  /\ [][/\ \A i \in 1..Len(registrations') :
             registrations'[i].payment_status = "paid" =>
               /\ registrations'[i].stripe_session_id # NULL
               /\ ConfirmedAmong(sessions', registrations'[i].stripe_session_id)
        /\ \A i \in (Len(registrations) + 1)..Len(registrations') :
             registrations'[i].payment_status = "pending"
        /\ \A i \in 1..Len(registrations) :
             registrations'[i].payment_status # registrations[i].payment_status =>
               /\ ProviderConfirmed(registrations[i].stripe_session_id)
               /\ \/ VerifiedEventHandled(registrations[i].stripe_session_id)
                  \/ PaidRetrievalHandled(registrations[i].stripe_session_id)]_vars

\* One registration is paid for a confirmed session while another stays
\* pending although a forged webhook and a success visit named its unpaid
\* session and the admin listing was served.
C24_Witness ==
  \E i, j \in 1..Len(registrations), w \in WebhookProcs, s \in SuccessProcs,
     a \in AdminProcs :
    /\ registrations[i].payment_status = "paid"
    /\ ProviderConfirmed(registrations[i].stripe_session_id)
    /\ registrations[j].payment_status = "pending"
    /\ registrations[j].stripe_session_id # NULL
    /\ ~ProviderConfirmed(registrations[j].stripe_session_id)
    /\ webhook[w].pc = "done" /\ webhook[w].signedWith = "attacker"
    /\ webhook[w].session = registrations[j].stripe_session_id
    /\ success[s].pc = "done" /\ success[s].sessionId = registrations[j].stripe_session_id
    /\ admin[a].pc = "done" /\ admin[a].resp = 200

====
